---- MODULE Spec2Model ----
(***************************************************************************)
(* Peer lifecycle of the WireGuard QR manager (src/app/main.py): the peer  *)
(* table, the live interface, and the request handlers create_peer,        *)
(* list_peers, get_peer, delete_peer and toggle_peer.                      *)
(*                                                                         *)
(* Strings that the code formats and parses again (ip_address) are         *)
(* sequences of one-character strings, so that f"{subnet}.{n}/32" and      *)
(* int(ip.split('.')[-1].split('/')[0]) are computed, not assumed.         *)
(* Keys are small integers; None (and the empty string of an unset         *)
(* setting) is 0, which Python's truth tests treat alike.                  *)
(***************************************************************************)
EXTENDS Integers, Sequences, FiniteSets, TLC

\* ------------------------------------------------------------------ bounds
\* Number of request slots (requests that may be pending at the same time).
NumProcs == 2
\* Number of distinct private keys `wg genkey` can return.
NumKeys == 2
\* Number of distinct pre-shared keys `wg genpsk` / the fallback can return.
NumPsks == 1
\* Number of host offsets below 254 that WG_START_IP may be configured to.
PoolSlack == 1
\* usage_count is capped at this value (get_peer is disabled beyond it).
MaxUsage == 1
\* Largest number of peer lines in a dump that the live-state read is given.
MaxDumpLines == 2

\* ------------------------------------------------------- program constants
None == 0
MaxHostOctet == 254
HostMask == 32
ServerKey == 900
\* A peer counts as connected while its handshake is less than this old.
ConnectedWindow == 130
\* Fewest tab-separated fields of a peer line of the dump.
DumpFields == 8
\* The reading of the clock, in epoch seconds, when a request runs.
Now == 1000

Procs == 1..NumProcs
PrivKeys == 1..NumKeys
Psks == 201..(200 + NumPsks)
\* Values WG_START_IP takes: the last PoolSlack+1 offsets of the pool and the
\* first offset beyond it.
StartOffsets == (MaxHostOctet - PoolSlack)..(MaxHostOctet + 1)

\* --------------------------------------------------------- string helpers
DigitChars == <<"0", "1", "2", "3", "4", "5", "6", "7", "8", "9">>

\* str(n) of a non-negative integer, as in an f-string.
RECURSIVE IntToStr(_)
IntToStr(n) ==
    IF n < 10 THEN <<DigitChars[n + 1]>>
    ELSE IntToStr(n \div 10) \o <<DigitChars[(n % 10) + 1]>>

DigitVal(c) == CHOOSE d \in 0..9 : DigitChars[d + 1] = c

\* int(s) of a string of decimal digits.
RECURSIVE StrToInt(_)
StrToInt(s) ==
    IF Len(s) = 0 THEN 0
    ELSE 10 * StrToInt(SubSeq(s, 1, Len(s) - 1)) + DigitVal(s[Len(s)])

\* s.split(sep): the pieces of s between occurrences of the character sep.
RECURSIVE Split(_, _)
Split(s, sep) ==
    IF \A i \in 1..Len(s) : s[i] # sep THEN <<s>>
    ELSE LET k == CHOOSE i \in 1..Len(s) :
                      s[i] = sep /\ \A j \in 1..(i - 1) : s[j] # sep
         IN  <<SubSeq(s, 1, k - 1)>> \o Split(SubSeq(s, k + 1, Len(s)), sep)

\* -------------------------------------------------------------- settings
WG_SUBNET == <<"1", "0", ".", "1", "0", ".", "0">>
WG_DNS == "1.1.1.1, 1.0.0.1"
WG_ALLOWED_IPS == "0.0.0.0/0, ::/0"
WG_SERVER_ENDPOINT == "vpn.example.com:51820"

VARIABLES
    WG_SERVER_PUBLIC_KEY,  \* Config.WG_SERVER_PUBLIC_KEY: None when unset
    WG_START_IP,           \* Config.WG_START_IP
    peers,                 \* the rows of table "peers"
    wg,                    \* the live interface: public key and allowed-ips
                           \* of each peer installed on it
    pc,                    \* pc[p]: position of the request in slot p
    loc,                   \* loc[p]: locals of the request in slot p
    allocLog,              \* history: addresses of the creations since the
                           \* table was last empty, <<>> once a row was deleted
    retryPending           \* history: ids of peers whose install at creation
                           \* failed and that were not toggled since

vars == <<WG_SERVER_PUBLIC_KEY, WG_START_IP, peers, wg, pc, loc,
          allocLog, retryPending>>

\* ------------------------------------------------------------ pure code
\* `wg pubkey`: the public key derived from a private key (injective).
PubKey(private_key) == 100 + private_key

\* Mutant: the address is written without its mask.
FormatIpNoMask(next_octet) == WG_SUBNET \o <<".">> \o IntToStr(next_octet)

\* The address text f"{config.WG_SUBNET}.{next_octet}/32".
FormatIp(next_octet) ==
    WG_SUBNET \o <<".">> \o IntToStr(next_octet) \o <<"/">> \o IntToStr(HostMask)

\* int(ip_address.split('.')[-1].split('/')[0])
LastOctet(ip_address) ==
    LET parts == Split(ip_address, ".")
    IN  StrToInt(Split(parts[Len(parts)], "/")[1])

\* db.query(Peer).order_by(Peer.id.desc()).first(), rows being non-empty.
LastPeer(rows) == CHOOSE r \in rows : \A q \in rows : q.id <= r.id

\* Mutant: an empty table starts at host 1, whatever WG_START_IP says.
NextOctetFromOne(rows) ==
    IF rows # {} THEN LastOctet(LastPeer(rows).ip_address) + 1
    ELSE 1

\* Mutant: the candidate follows the oldest row, not the newest.
NextOctetAfterOldest(rows) ==
    IF rows # {}
    THEN LastOctet((CHOOSE r \in rows : \A q \in rows : r.id <= q.id).ip_address) + 1
    ELSE WG_START_IP

\* The candidate host octet of get_next_ip, before the range test.
NextOctet(rows) ==
    IF rows # {} THEN LastOctet(LastPeer(rows).ip_address) + 1
    ELSE WG_START_IP

\* Mutant: the range test is off by one and lets host 255 through.
PoolExhaustedOffByOne(next_octet) == next_octet > MaxHostOctet + 1

PoolExhausted(next_octet) == next_octet > MaxHostOctet

\* config_lines.insert(-1, line): line goes before the last element.
InsertBeforeLast(lines, line) ==
    SubSeq(lines, 1, Len(lines) - 1) \o <<line>> \o <<lines[Len(lines)]>>

\* create_client_config: the lines that "\n".join puts together, each
\* "Key = value" line as the pair <<Key, value>>.
CreateClientConfig(private_key, ip_address, preshared_key) ==
    LET config_lines ==
            << <<"[Interface]">>,
               <<"PrivateKey", private_key>>,
               <<"Address", ip_address>>,
               <<"DNS", WG_DNS>>,
               <<"">>,
               <<"[Peer]">>,
               <<"PublicKey", WG_SERVER_PUBLIC_KEY>>,
               <<"AllowedIPs", WG_ALLOWED_IPS>>,
               <<"Endpoint", WG_SERVER_ENDPOINT>>,
               <<"PersistentKeepalive", 25>> >>
    IN  IF preshared_key # None
        THEN InsertBeforeLast(config_lines, <<"PresharedKey", preshared_key>>)
        ELSE config_lines

\* ------------------------------------------------------------ peer table
\* A row of table "peers" as Peer(...) builds it: usage_count and is_active
\* take their column defaults, last_used and last_handshake are NULL.
NewPeer(id, public_key, private_key, preshared_key, ip_address, config_text) ==
    [id |-> id,
     public_key |-> public_key,
     private_key |-> private_key,
     preshared_key |-> preshared_key,
     ip_address |-> ip_address,
     last_used |-> None,
     usage_count |-> 0,
     is_active |-> 1,
     config_text |-> config_text,
     last_handshake |-> None]

NoPeer == NewPeer(0, None, None, None, <<>>, <<>>)

\* The id the database gives an inserted row: an INTEGER PRIMARY KEY of the
\* default SQLite database is one more than the largest id in the table.
NextId(rows) == IF rows = {} THEN 1 ELSE LastPeer(rows).id + 1

\* Mutant: the columns carry no unique constraint.
UniqueViolationUnconstrained(rows, row) == FALSE

\* The unique constraints of public_key and ip_address, tested at commit.
UniqueViolation(rows, row) ==
    \E q \in rows : q.public_key = row.public_key \/ q.ip_address = row.ip_address

\* Mutant: the row of a refused commit stays in the table.
DbInsertNoRollback(rows, row) == rows \cup {row}

\* The table after db.add(row); db.commit(): a commit that violates a unique
\* constraint raises and is rolled back.
DbInsert(rows, row) ==
    IF UniqueViolation(rows, row) THEN rows ELSE rows \cup {row}

\* Mutant: an id that matches no row yields the newest row.
PeerByIdOrLast(rows, peer_id) ==
    IF \E r \in rows : r.id = peer_id
    THEN CHOOSE r \in rows : r.id = peer_id
    ELSE IF rows # {} THEN LastPeer(rows) ELSE NoPeer

\* db.query(Peer).filter(Peer.id == peer_id).first(); NoPeer for None.
PeerById(rows, peer_id) ==
    IF \E r \in rows : r.id = peer_id
    THEN CHOOSE r \in rows : r.id = peer_id
    ELSE NoPeer

\* The rows ordered by created_at descending; a later insert has the larger id.
RECURSIVE OrderByCreatedDesc(_)
OrderByCreatedDesc(rows) ==
    IF rows = {} THEN <<>>
    ELSE LET r == LastPeer(rows) IN <<r>> \o OrderByCreatedDesc(rows \ {r})

\* -------------------------------------------------------- live interface
\* One invocation of an external command, as the request issued it.
Call(cmd, public_key, allowed_ips, preshared_key) ==
    [cmd |-> cmd, public_key |-> public_key,
     allowed_ips |-> allowed_ips, preshared_key |-> preshared_key]

\* The interface after a successful
\* `wg set <if> peer <key> allowed-ips <ip> [preshared-key /dev/stdin]`.
WgSetPeer(iface, public_key, ip_address, preshared_key) ==
    {e \in iface : e.public_key # public_key}
        \cup {[public_key |-> public_key, allowed_ips |-> ip_address]}

\* Mutant: the removal leaves the peer on the interface.
WgRemovePeerKeeps(iface, public_key) == iface

\* The interface after a successful `wg set <if> peer <key> remove`.
WgRemovePeer(iface, public_key) == {e \in iface : e.public_key # public_key}

\* add_peer_to_wireguard: the interface afterwards and the commands issued.
\* set_ok: `wg set` exits 0. Any failure is caught and only changes the
\* return value, which no caller reads.
AddPeerToWireguard(iface, public_key, ip_address, preshared_key, set_ok) ==
    LET psk == IF preshared_key # None THEN preshared_key ELSE None
        set == Call("set_peer", public_key, ip_address, psk)
        save == Call("save", None, <<>>, None)
    IN  IF set_ok
        THEN [wg |-> WgSetPeer(iface, public_key, ip_address, psk),
              calls |-> <<set, save>>]
        ELSE [wg |-> iface, calls |-> <<set>>]

\* remove_peer_from_wireguard, likewise.
RemovePeerFromWireguard(iface, public_key, remove_ok) ==
    LET remove == Call("remove_peer", public_key, <<>>, None)
        save == Call("save", None, <<>>, None)
    IN  IF remove_ok
        THEN [wg |-> WgRemovePeer(iface, public_key), calls |-> <<remove, save>>]
        ELSE [wg |-> iface, calls |-> <<remove>>]

\* ------------------------------------------------------- live-state read
\* sep.join(parts)
RECURSIVE Join(_, _)
Join(parts, sep) ==
    IF Len(parts) = 0 THEN <<>>
    ELSE IF Len(parts) = 1 THEN parts[1]
    ELSE parts[1] \o <<sep>> \o Join(Tail(parts), sep)

\* int(s) raises ValueError unless s is a non-empty string of digits.
IsIntText(s) ==
    /\ Len(s) > 0
    /\ \A i \in 1..Len(s) : \E d \in 1..10 : DigitChars[d] = s[i]

\* The text of a public key, as the dump prints it.
KeyText(public_key) == IntToStr(public_key)

\* What stats.get(field, default) gives for a peer that has no entry.
NoStats ==
    [latest_handshake |-> None, rx_bytes |-> 0, tx_bytes |-> 0,
     is_connected |-> FALSE]

\* Mutant: the window test is <= instead of <.
IsConnectedInclusive(latest_handshake, now) ==
    latest_handshake > 0 /\ (now - latest_handshake) <= ConnectedWindow

\* latest_handshake > 0 and (datetime.now().timestamp() - latest_handshake) < 130
IsConnected(latest_handshake, now) ==
    latest_handshake > 0 /\ (now - latest_handshake) < ConnectedWindow

\* The entry that one peer line of the dump yields; datetime.fromtimestamp(t)
\* is the epoch second t, None for "never".
StatsEntry(parts, now) ==
    LET latest_handshake == IF parts[5] # <<"0">> THEN StrToInt(parts[5]) ELSE 0
        rx_bytes == IF parts[6] # <<>> THEN StrToInt(parts[6]) ELSE 0
        tx_bytes == IF parts[7] # <<>> THEN StrToInt(parts[7]) ELSE 0
    IN  [latest_handshake |-> IF latest_handshake # 0 THEN latest_handshake ELSE None,
         rx_bytes |-> rx_bytes,
         tx_bytes |-> tx_bytes,
         is_connected |-> IsConnected(latest_handshake, now)]

\* One of the int(...) calls on the line raises ValueError.
LineRaises(parts) ==
    \/ parts[5] # <<"0">> /\ ~IsIntText(parts[5])
    \/ parts[6] # <<>> /\ ~IsIntText(parts[6])
    \/ parts[7] # <<>> /\ ~IsIntText(parts[7])

\* stats[public_key] = {...}
StatsPut(stats, key, entry) ==
    [k \in DOMAIN stats \cup {key} |-> IF k = key THEN entry ELSE stats[k]]

\* The loop `for line in lines[1:]` from line i on, stats being the mapping
\* built so far: a line with fewer than 8 fields is skipped, a ValueError
\* leaves the loop for the except clause, after which stats is returned as
\* it then stands.
RECURSIVE ParseDump(_, _, _, _)
ParseDump(lines, i, stats, now) ==
    IF i > Len(lines) THEN stats
    ELSE LET parts == Split(lines[i], "\t")
         IN  IF Len(parts) >= DumpFields
             THEN IF LineRaises(parts) THEN stats
                  ELSE ParseDump(lines, i + 1,
                                 StatsPut(stats, parts[1], StatsEntry(parts, now)),
                                 now)
             ELSE ParseDump(lines, i + 1, stats, now)

\* Outcomes of `wg show <if> dump` run with timeout=5: exit 0,
\* FileNotFoundError, TimeoutExpired, a non-zero exit.
ShowOutcomes == {"ok", "missing", "timeout", "nonzero"}

\* get_wireguard_stats(): lines is result.stdout.strip().split('\n'), its
\* first line describing the interface.
GetWireguardStats(tool, lines, now) ==
    IF tool = "ok" THEN ParseDump(lines, 2, <<>>, now) ELSE <<>>

\* stats = wg_stats.get(peer.public_key, {}), read with .get and defaults.
StatsOf(wg_stats, public_key) ==
    IF KeyText(public_key) \in DOMAIN wg_stats
    THEN wg_stats[KeyText(public_key)]
    ELSE NoStats

\* Handshake fields a peer line may carry: never, ages around the window,
\* and a field that is not a number.
HandshakeTexts ==
    {<<"0">>, <<"x">>} \cup
    {IntToStr(Now - age) : age \in {0, ConnectedWindow - 1, ConnectedWindow, 200}}

\* Received-bytes fields a peer line may carry.
RxTexts == {<<>>, <<"7">>}

\* A peer line of `wg show <if> dump`: public key, preshared key, endpoint,
\* allowed ips, latest handshake, rx, tx, keepalive, separated by tabs.
DumpLine(public_key, handshake, rx) ==
    Join(<<KeyText(public_key), <<"p">>, <<"e">>, <<"a">>, handshake, rx,
           <<"9">>, <<"k">> >>, "\t")

\* The first line of the dump, which describes the interface, and a line
\* that is too short to be a peer line.
InterfaceLine == Join(<<<<"s">>, <<"k">>, <<"1">>, <<"f">> >>, "\t")

DumpLines ==
    {DumpLine(PubKey(k), h, r) : k \in PrivKeys, h \in HandshakeTexts, r \in RxTexts}
    \cup {InterfaceLine}

\* The outputs of the dump command that the read is given.
Dumps ==
    {<<InterfaceLine>> \o body :
        body \in UNION {[1..n -> DumpLines] : n \in 0..MaxDumpLines}}

\* Handshake fields of the dumps that the request handlers are given: never,
\* one minute ago, and before the connection window.
ViewHandshakes == {<<"0">>, IntToStr(Now - 60), IntToStr(Now - 200)}

\* The peer lines of the dump of an interface with these peers installed,
\* in the order of their keys.
RECURSIVE PeerLines(_, _)
PeerLines(installed, handshakes) ==
    IF installed = {} THEN <<>>
    ELSE LET e == CHOOSE e \in installed :
                      \A f \in installed : e.public_key <= f.public_key
         IN  <<DumpLine(e.public_key, handshakes[e.public_key], <<"7">>)>>
             \o PeerLines(installed \ {e}, handshakes)

\* The output of `wg show <if> dump` for the interface as it stands.
LiveDump(installed, handshakes) ==
    <<InterfaceLine>> \o PeerLines(installed, handshakes)

\* The handshake fields the installed peers may show.
LiveHandshakes(installed, texts) ==
    [{e.public_key : e \in installed} -> texts]

\* --------------------------------------------------------------- requests
\* Ids a request may name: every id the table can hold and one beyond.
PeerIds == 1..(PoolSlack + 2)

\* Outcomes of running `wg genkey` / `wg pubkey`: exit 0, FileNotFoundError,
\* CalledProcessError.
ToolOutcomes == {"ok", "missing", "fail"}

IdleLoc ==
    [kind |-> "none", peer_id |-> 0, use_preshared_key |-> FALSE,
     private_key |-> None, public_key |-> None, preshared_key |-> None,
     ip_address |-> <<>>, config_text |-> <<>>, peer |-> NoPeer,
     pre |-> {}, calls |-> <<>>, retry |-> FALSE,
     tool |-> "none", lines |-> <<>>, wg_stats |-> <<>>,
     status |-> 0, detail |-> "", result |-> <<>>]

\* The locals of a request that has just been dispatched: `pre` remembers the
\* table the request found, `calls` collects the external commands it runs.
StartLoc(kind, peer_id) ==
    [IdleLoc EXCEPT !.kind = kind, !.peer_id = peer_id, !.pre = peers]

\* Mutant: a request is dispatched while another is still running.
LoopFreeUnserialised == TRUE

\* The handlers are `async def` and never await: the event loop runs one
\* request from its first line to its response before it starts another.
LoopFree == \A q \in Procs : pc[q] = "idle"

\* The request in slot p ends with this response.
Finish(l, status, detail, result) ==
    [l EXCEPT !.status = status, !.detail = detail, !.result = result]

\* Mutant: the handler does not test the server key.
ServerConfiguredUnchecked == TRUE

\* bool(config.WG_SERVER_PUBLIC_KEY)
ServerConfigured == WG_SERVER_PUBLIC_KEY # None

Init ==
    /\ WG_SERVER_PUBLIC_KEY \in {None, ServerKey}
    /\ WG_START_IP \in StartOffsets
    /\ peers = {}
    /\ wg = {}
    /\ pc = [p \in Procs |-> "idle"]
    /\ loc = [p \in Procs |-> IdleLoc]
    /\ allocLog = <<>>
    /\ retryPending = {}

\* ---- create_peer ----------------------------------------------------------
\* POST /api/peers: the configuration test that opens the handler.
CreatePeer(p, use_preshared_key) ==
    /\ LoopFree
    /\ LET l == [StartLoc("create", 0) EXCEPT
                     !.use_preshared_key = use_preshared_key]
       IN  IF ~ServerConfigured
           THEN /\ pc' = [pc EXCEPT ![p] = "done"]
                /\ loc' = [loc EXCEPT ![p] =
                               Finish(l, 400, "Server not configured", <<>>)]
           ELSE /\ pc' = [pc EXCEPT ![p] = "generate_keys"]
                /\ loc' = [loc EXCEPT ![p] = l]
    /\ UNCHANGED <<WG_SERVER_PUBLIC_KEY, WG_START_IP, peers, wg,
                   allocLog, retryPending>>

\* generate_wireguard_keys: `wg genkey`, then `wg pubkey` on its output.
GenerateWireguardKeys(p, genkey, pubkey, private_key) ==
    /\ pc[p] = "generate_keys"
    /\ LET l == loc[p]
           c1 == Append(l.calls, Call("genkey", None, <<>>, None))
           c2 == Append(c1, Call("pubkey", None, <<>>, None))
       IN  IF genkey # "ok"
           THEN /\ pc' = [pc EXCEPT ![p] = "done"]
                /\ loc' = [loc EXCEPT ![p] =
                       Finish([l EXCEPT !.calls = c1], 500,
                              IF genkey = "missing"
                              THEN "WireGuard tools not installed"
                              ELSE "Key generation failed", <<>>)]
           ELSE IF pubkey # "ok"
           THEN /\ pc' = [pc EXCEPT ![p] = "done"]
                /\ loc' = [loc EXCEPT ![p] =
                       Finish([l EXCEPT !.calls = c2], 500,
                              IF pubkey = "missing"
                              THEN "WireGuard tools not installed"
                              ELSE "Key generation failed", <<>>)]
           ELSE /\ pc' = [pc EXCEPT ![p] = "generate_psk"]
                /\ loc' = [loc EXCEPT ![p] =
                       [l EXCEPT !.calls = c2,
                                 !.private_key = private_key,
                                 !.public_key = PubKey(private_key)]]
    /\ UNCHANGED <<WG_SERVER_PUBLIC_KEY, WG_START_IP, peers, wg,
                   allocLog, retryPending>>

\* generate_preshared_key() if use_preshared_key else None: `wg genpsk`, or
\* 32 random bytes when it fails; either way some key comes back.
GeneratePresharedKey(p, preshared_key) ==
    /\ pc[p] = "generate_psk"
    /\ LET l == loc[p] IN
       loc' = [loc EXCEPT ![p] =
                  IF l.use_preshared_key
                  THEN [l EXCEPT !.preshared_key = preshared_key,
                                 !.calls = Append(@, Call("genpsk", None, <<>>, None))]
                  ELSE l]
    /\ pc' = [pc EXCEPT ![p] = "get_next_ip"]
    /\ UNCHANGED <<WG_SERVER_PUBLIC_KEY, WG_START_IP, peers, wg,
                   allocLog, retryPending>>

\* get_next_ip(db), then create_client_config(...).
GetNextIp(p) ==
    /\ pc[p] = "get_next_ip"
    /\ LET l == loc[p]
           next_octet == NextOctet(peers)
           ip_address == FormatIp(next_octet)
       IN  IF PoolExhausted(next_octet)
           THEN /\ pc' = [pc EXCEPT ![p] = "done"]
                /\ loc' = [loc EXCEPT ![p] =
                               Finish(l, 500, "IP address pool exhausted", <<>>)]
           ELSE /\ pc' = [pc EXCEPT ![p] = "commit"]
                /\ loc' = [loc EXCEPT ![p] =
                       [l EXCEPT !.ip_address = ip_address,
                                 !.config_text =
                                     CreateClientConfig(l.private_key, ip_address,
                                                        l.preshared_key)]]
    /\ UNCHANGED <<WG_SERVER_PUBLIC_KEY, WG_START_IP, peers, wg,
                   allocLog, retryPending>>

\* Peer(...); db.add(peer); db.commit(); db.refresh(peer)
CreateCommit(p) ==
    /\ pc[p] = "commit"
    /\ LET l == loc[p]
           peer == NewPeer(NextId(peers), l.public_key, l.private_key,
                           l.preshared_key, l.ip_address, l.config_text)
       IN  IF UniqueViolation(peers, peer)
           THEN /\ pc' = [pc EXCEPT ![p] = "done"]
                /\ loc' = [loc EXCEPT ![p] = Finish(l, 500, "IntegrityError", <<>>)]
                /\ peers' = DbInsert(peers, peer)
                /\ UNCHANGED allocLog
           ELSE /\ peers' = DbInsert(peers, peer)
                /\ allocLog' = IF peers = {} THEN <<peer.ip_address>>
                               ELSE IF allocLog # <<>>
                               THEN Append(allocLog, peer.ip_address)
                               ELSE <<>>
                /\ pc' = [pc EXCEPT ![p] = "add_peer"]
                /\ loc' = [loc EXCEPT ![p] = [l EXCEPT !.peer = peer,
                                                      !.peer_id = peer.id]]
    /\ UNCHANGED <<WG_SERVER_PUBLIC_KEY, WG_START_IP, wg, retryPending>>

\* Mutant: a failed install fails the request and takes the row back out.
CreateInstallFatal(p, set_ok) ==
    /\ pc[p] = "add_peer"
    /\ LET l == loc[p]
           r == AddPeerToWireguard(wg, l.public_key, l.ip_address,
                                   l.preshared_key, set_ok)
       IN  /\ wg' = r.wg
           /\ peers' = IF set_ok THEN peers ELSE peers \ {l.peer}
           /\ loc' = [loc EXCEPT ![p] =
                  Finish([l EXCEPT !.calls = @ \o r.calls],
                         IF set_ok THEN 200 ELSE 500, "",
                         [id |-> l.peer.id, ip_address |-> l.peer.ip_address])]
    /\ pc' = [pc EXCEPT ![p] = "done"]
    /\ UNCHANGED <<WG_SERVER_PUBLIC_KEY, WG_START_IP, allocLog, retryPending>>

\* add_peer_to_wireguard(public_key, ip_address, preshared_key); return {...}
CreateInstall(p, set_ok) ==
    /\ pc[p] = "add_peer"
    /\ LET l == loc[p]
           r == AddPeerToWireguard(wg, l.public_key, l.ip_address,
                                   l.preshared_key, set_ok)
       IN  /\ wg' = r.wg
           /\ loc' = [loc EXCEPT ![p] =
                  Finish([l EXCEPT !.calls = @ \o r.calls], 200, "",
                         [id |-> l.peer.id, ip_address |-> l.peer.ip_address])]
           /\ retryPending' = IF set_ok THEN retryPending \ {l.peer.id}
                              ELSE retryPending \cup {l.peer.id}
    /\ pc' = [pc EXCEPT ![p] = "done"]
    /\ UNCHANGED <<WG_SERVER_PUBLIC_KEY, WG_START_IP, peers, allocLog>>

\* Mutant: the commit writes the row with its counter reset.
DbUpdateResetsUsage(rows, peer) ==
    {r \in rows : r.id # peer.id} \cup {[peer EXCEPT !.usage_count = 0]}

\* The table after db.commit() has written the changed row.
DbUpdate(rows, peer) == {r \in rows : r.id # peer.id} \cup {peer}

\* ---- index ----------------------------------------------------------------
\* Mutant: the refresh also blanks the stored configuration.
RefreshHandshakeRewritesConfig(r, wg_stats) ==
    LET stats == StatsOf(wg_stats, r.public_key)
    IN  IF stats.latest_handshake # None
        THEN [r EXCEPT !.last_handshake = stats.latest_handshake,
                       !.config_text = <<>>]
        ELSE r

\* peer.last_handshake = stats['latest_handshake'], when that is truthy.
RefreshHandshake(r, wg_stats) ==
    LET stats == StatsOf(wg_stats, r.public_key)
    IN  IF stats.latest_handshake # None
        THEN [r EXCEPT !.last_handshake = stats.latest_handshake]
        ELSE r

\* One entry of peers_data, built after the row was refreshed.
IndexedPeer(r, wg_stats) ==
    LET stats == StatsOf(wg_stats, r.public_key)
    IN  [id |-> r.id, ip_address |-> r.ip_address, last_used |-> r.last_used,
         usage_count |-> r.usage_count, is_active |-> r.is_active,
         public_key |-> r.public_key,
         is_connected |-> stats.is_connected,
         last_handshake |-> IF stats.latest_handshake # None
                            THEN stats.latest_handshake
                            ELSE r.last_handshake,
         rx_bytes |-> stats.rx_bytes, tx_bytes |-> stats.tx_bytes]

\* GET /: the page of all peers, newest first; the refreshed handshake
\* times are committed.
Index(p, tool, handshakes) ==
    /\ LoopFree
    /\ pc' = [pc EXCEPT ![p] = "done"]
    /\ LET wg_stats == GetWireguardStats(tool, LiveDump(wg, handshakes), Now)
           refreshed == {RefreshHandshake(r, wg_stats) : r \in peers}
           ordered == OrderByCreatedDesc(refreshed)
       IN  /\ peers' = refreshed
           /\ loc' = [loc EXCEPT ![p] =
                  Finish([StartLoc("index", 0) EXCEPT
                              !.calls = <<Call("show_dump", None, <<>>, None)>>,
                              !.wg_stats = wg_stats],
                         200, "",
                         [i \in 1..Len(ordered) |-> IndexedPeer(ordered[i], wg_stats)])]
    /\ UNCHANGED <<WG_SERVER_PUBLIC_KEY, WG_START_IP, wg, allocLog, retryPending>>

\* ---- list_peers -----------------------------------------------------------
\* One entry of the list: fields of the row, then the live fields, each read
\* with .get and its default.
ListedPeer(r, wg_stats) ==
    LET stats == StatsOf(wg_stats, r.public_key)
    IN  [id |-> r.id, ip_address |-> r.ip_address, last_used |-> r.last_used,
         usage_count |-> r.usage_count, is_active |-> (r.is_active # 0),
         is_connected |-> stats.is_connected,
         last_handshake |-> stats.latest_handshake,
         rx_bytes |-> stats.rx_bytes, tx_bytes |-> stats.tx_bytes]

\* GET /api/peers: one entry per row, newest first.
ListingOf(rows, wg_stats) ==
    LET ordered == OrderByCreatedDesc(rows)
    IN  [i \in 1..Len(ordered) |-> ListedPeer(ordered[i], wg_stats)]

ListPeers(p, tool, handshakes) ==
    /\ LoopFree
    /\ pc' = [pc EXCEPT ![p] = "done"]
    /\ LET wg_stats == GetWireguardStats(tool, LiveDump(wg, handshakes), Now)
       IN  loc' = [loc EXCEPT ![p] =
               Finish([StartLoc("list", 0) EXCEPT
                           !.calls = <<Call("show_dump", None, <<>>, None)>>,
                           !.wg_stats = wg_stats],
                      200, "", ListingOf(peers, wg_stats))]
    /\ UNCHANGED <<WG_SERVER_PUBLIC_KEY, WG_START_IP, peers, wg,
                   allocLog, retryPending>>

\* ---- get_peer -------------------------------------------------------------
\* The response of get_peer: the listed fields and the stored configuration.
GotPeer(r, wg_stats) ==
    LET e == ListedPeer(r, wg_stats)
    IN  [id |-> e.id, ip_address |-> e.ip_address, last_used |-> e.last_used,
         usage_count |-> e.usage_count, is_active |-> e.is_active,
         config |-> r.config_text,
         is_connected |-> e.is_connected, last_handshake |-> e.last_handshake,
         rx_bytes |-> e.rx_bytes, tx_bytes |-> e.tx_bytes]

\* GET /api/peers/{peer_id}: counts the retrieval, then returns the stored
\* configuration with the live fields.
GetPeer(p, peer_id, tool, handshakes) ==
    /\ LoopFree
    /\ LET l == StartLoc("get", peer_id)
           peer == PeerById(peers, peer_id)
           used == [peer EXCEPT !.last_used = Now, !.usage_count = @ + 1]
           wg_stats == GetWireguardStats(tool, LiveDump(wg, handshakes), Now)
       IN  IF peer = NoPeer
           THEN /\ loc' = [loc EXCEPT ![p] = Finish(l, 404, "Peer not found", <<>>)]
                /\ UNCHANGED peers
           ELSE /\ peer.usage_count < MaxUsage
                /\ peers' = DbUpdate(peers, used)
                /\ loc' = [loc EXCEPT ![p] =
                       Finish([l EXCEPT !.peer = used,
                                        !.calls = <<Call("show_dump", None, <<>>, None)>>,
                                        !.wg_stats = wg_stats],
                              200, "", GotPeer(used, wg_stats))]
    /\ pc' = [pc EXCEPT ![p] = "done"]
    /\ UNCHANGED <<WG_SERVER_PUBLIC_KEY, WG_START_IP, wg, allocLog, retryPending>>

\* ---- get_stats ------------------------------------------------------------
\* GET /api/stats: the peers that the live state shows connected.
GetStats(p, tool, handshakes) ==
    /\ LoopFree
    /\ pc' = [pc EXCEPT ![p] = "done"]
    /\ LET wg_stats == GetWireguardStats(tool, LiveDump(wg, handshakes), Now)
           connected == {r \in peers : StatsOf(wg_stats, r.public_key).is_connected}
       IN  loc' = [loc EXCEPT ![p] =
               Finish([StartLoc("stats", 0) EXCEPT
                           !.calls = <<Call("show_dump", None, <<>>, None)>>,
                           !.wg_stats = wg_stats],
                      200, "",
                      [connected_count |-> Cardinality(connected),
                       connected_peers |-> {r.id : r \in connected},
                       total_peers |-> Cardinality(peers)])]
    /\ UNCHANGED <<WG_SERVER_PUBLIC_KEY, WG_START_IP, peers, wg,
                   allocLog, retryPending>>

\* ---- delete_peer ----------------------------------------------------------
\* DELETE /api/peers/{peer_id}: the lookup.
DeletePeer(p, peer_id) ==
    /\ LoopFree
    /\ LET l == StartLoc("delete", peer_id)
           peer == PeerById(peers, peer_id)
       IN  IF peer = NoPeer
           THEN /\ pc' = [pc EXCEPT ![p] = "done"]
                /\ loc' = [loc EXCEPT ![p] = Finish(l, 404, "Peer not found", <<>>)]
           ELSE /\ pc' = [pc EXCEPT ![p] = "remove_peer"]
                /\ loc' = [loc EXCEPT ![p] = [l EXCEPT !.peer = peer]]
    /\ UNCHANGED <<WG_SERVER_PUBLIC_KEY, WG_START_IP, peers, wg,
                   allocLog, retryPending>>

\* remove_peer_from_wireguard(peer.public_key)
DeleteRemove(p, remove_ok) ==
    /\ pc[p] = "remove_peer"
    /\ LET l == loc[p]
           r == RemovePeerFromWireguard(wg, l.peer.public_key, remove_ok)
       IN  /\ wg' = r.wg
           /\ loc' = [loc EXCEPT ![p] = [l EXCEPT !.calls = @ \o r.calls]]
    /\ pc' = [pc EXCEPT ![p] = "delete_commit"]
    /\ UNCHANGED <<WG_SERVER_PUBLIC_KEY, WG_START_IP, peers,
                   allocLog, retryPending>>

\* Mutant: the deletion is never committed.
DbDeleteUncommitted(rows, peer) == rows

\* The table after db.delete(peer); db.commit().
DbDelete(rows, peer) == {r \in rows : r.id # peer.id}

\* db.delete(peer); db.commit(); return {"message": "Peer deleted"}
DeleteCommit(p) ==
    /\ pc[p] = "delete_commit"
    /\ peers' = DbDelete(peers, loc[p].peer)
    /\ allocLog' = <<>>
    /\ retryPending' = retryPending \ {loc[p].peer.id}
    /\ loc' = [loc EXCEPT ![p] = Finish(loc[p], 200, "Peer deleted", <<>>)]
    /\ pc' = [pc EXCEPT ![p] = "done"]
    /\ UNCHANGED <<WG_SERVER_PUBLIC_KEY, WG_START_IP, wg>>

\* ---- toggle_peer ----------------------------------------------------------
\* POST /api/peers/{peer_id}/toggle: the lookup.
TogglePeer(p, peer_id) ==
    /\ LoopFree
    /\ LET l == StartLoc("toggle", peer_id)
           peer == PeerById(peers, peer_id)
       IN  IF peer = NoPeer
           THEN /\ pc' = [pc EXCEPT ![p] = "done"]
                /\ loc' = [loc EXCEPT ![p] = Finish(l, 404, "Peer not found", <<>>)]
           ELSE /\ pc' = [pc EXCEPT ![p] = "toggle_live"]
                /\ loc' = [loc EXCEPT ![p] =
                       [l EXCEPT !.peer = peer,
                                 !.retry = (peer_id \in retryPending)]]
    /\ UNCHANGED <<WG_SERVER_PUBLIC_KEY, WG_START_IP, peers, wg,
                   allocLog, retryPending>>

\* Mutant: the flag is flipped only when the live call succeeded.
ToggleLiveCallStrict(iface, peer, live_ok) ==
    IF peer.is_active # 0
    THEN [live |-> RemovePeerFromWireguard(iface, peer.public_key, live_ok),
          is_active |-> IF live_ok THEN 0 ELSE 1]
    ELSE [live |-> AddPeerToWireguard(iface, peer.public_key, peer.ip_address,
                                      peer.preshared_key, live_ok),
          is_active |-> IF live_ok THEN 1 ELSE 0]

\* Mutant: toggling an active peer installs it again and leaves it active.
ToggleLiveCallReinstall(iface, peer, live_ok) ==
    [live |-> AddPeerToWireguard(iface, peer.public_key, peer.ip_address,
                                 peer.preshared_key, live_ok),
     is_active |-> 1]

\* The live call of toggle_peer and the flag it then sets on the loaded row:
\* a removal for an active peer, an install for an inactive one.
ToggleLiveCall(iface, peer, live_ok) ==
    IF peer.is_active # 0
    THEN [live |-> RemovePeerFromWireguard(iface, peer.public_key, live_ok),
          is_active |-> 0]
    ELSE [live |-> AddPeerToWireguard(iface, peer.public_key, peer.ip_address,
                                      peer.preshared_key, live_ok),
          is_active |-> 1]

ToggleLive(p, live_ok) ==
    /\ pc[p] = "toggle_live"
    /\ LET l == loc[p]
           t == ToggleLiveCall(wg, l.peer, live_ok)
       IN  /\ wg' = t.live.wg
           /\ loc' = [loc EXCEPT ![p] =
                  [l EXCEPT !.calls = @ \o t.live.calls,
                            !.peer = [@ EXCEPT !.is_active = t.is_active]]]
    /\ pc' = [pc EXCEPT ![p] = "toggle_commit"]
    /\ UNCHANGED <<WG_SERVER_PUBLIC_KEY, WG_START_IP, peers,
                   allocLog, retryPending>>

\* db.commit(); return {"is_active": bool(peer.is_active)}
ToggleCommit(p) ==
    /\ pc[p] = "toggle_commit"
    /\ peers' = DbUpdate(peers, loc[p].peer)
    /\ retryPending' = retryPending \ {loc[p].peer.id}
    /\ loc' = [loc EXCEPT ![p] =
           Finish(loc[p], 200, "", [is_active |-> (loc[p].peer.is_active # 0)])]
    /\ pc' = [pc EXCEPT ![p] = "done"]
    /\ UNCHANGED <<WG_SERVER_PUBLIC_KEY, WG_START_IP, wg, allocLog>>

\* The response leaves; the slot is free for the next request.
Respond(p) ==
    /\ pc[p] = "done"
    /\ pc' = [pc EXCEPT ![p] = "idle"]
    /\ loc' = [loc EXCEPT ![p] = IdleLoc]
    /\ UNCHANGED <<WG_SERVER_PUBLIC_KEY, WG_START_IP, peers, wg,
                   allocLog, retryPending>>

\* One step of the request in slot p. The handlers are those of the service;
\* live_oks, shows and texts are what the environment may answer: whether an
\* install or removal succeeds, how the dump command ends, and the handshake
\* fields its peer lines carry.
Requests(p, live_oks, shows, texts) ==
    \/ \E use_preshared_key \in BOOLEAN : CreatePeer(p, use_preshared_key)
    \/ \E genkey \in ToolOutcomes, pubkey \in ToolOutcomes, k \in PrivKeys :
           GenerateWireguardKeys(p, genkey, pubkey, k)
    \/ \E k \in Psks : GeneratePresharedKey(p, k)
    \/ GetNextIp(p)
    \/ CreateCommit(p)
    \/ \E set_ok \in live_oks : CreateInstall(p, set_ok)
    \/ \E tool \in shows, handshakes \in LiveHandshakes(wg, texts) :
           \/ Index(p, tool, handshakes)
           \/ ListPeers(p, tool, handshakes)
           \/ \E peer_id \in PeerIds : GetPeer(p, peer_id, tool, handshakes)
           \/ GetStats(p, tool, handshakes)
    \/ \E peer_id \in PeerIds : DeletePeer(p, peer_id)
    \/ \E remove_ok \in live_oks : DeleteRemove(p, remove_ok)
    \/ DeleteCommit(p)
    \/ \E peer_id \in PeerIds : TogglePeer(p, peer_id)
    \/ \E live_ok \in live_oks : ToggleLive(p, live_ok)
    \/ ToggleCommit(p)
    \/ Respond(p)

\* Any request, an install or removal failing or not, while the dump command
\* times out.
Next == \E p \in Procs : Requests(p, BOOLEAN, {"timeout"}, {<<"0">>})

Spec == Init /\ [][Next]_vars

\* ---- an external command that never returns --------------------------------
\* The steps at which a handler runs subprocess.run without a timeout: wg
\* genkey and wg pubkey, wg genpsk, wg set and wg-quick save at an install,
\* the same two at a removal.
UntimedSteps ==
    {"generate_keys", "generate_psk", "add_peer", "remove_peer", "toggle_live"}

\* The command started at this step never exits: subprocess.run, given no
\* timeout, does not return, and the handler stays in the call.
ToolHangs(p) ==
    /\ pc[p] \in UntimedSteps
    /\ pc' = [pc EXCEPT ![p] = "hung"]
    /\ UNCHANGED <<WG_SERVER_PUBLIC_KEY, WG_START_IP, peers, wg, loc, allocLog,
                   retryPending>>

\* Any request, while a command may fail to return: the dump command, run
\* with timeout=5, then ends in TimeoutExpired.
NextHang ==
    \E p \in Procs :
        \/ Requests(p, BOOLEAN, {"timeout"}, {<<"0">>})
        \/ ToolHangs(p)

SpecHang == Init /\ [][NextHang]_vars

\* Any request, every install and removal succeeding, while the dump command
\* answers or fails and the installed peers show any of the handshakes.
NextLiveOk ==
    \E p \in Procs : Requests(p, {TRUE}, {"ok", "timeout"}, ViewHandshakes)

SpecLiveOk == Init /\ [][NextLiveOk]_vars

\* ---- get_wireguard_stats, on its own ----------------------------------------
\* The read is handed the outcome of the command and its output.
InitStats ==
    /\ WG_SERVER_PUBLIC_KEY = ServerKey
    /\ WG_START_IP = MaxHostOctet - PoolSlack
    /\ peers = {}
    /\ wg = {}
    /\ pc = [p \in Procs |-> IF p = 1 THEN "read_stats" ELSE "idle"]
    /\ \E tool \in ShowOutcomes, lines \in Dumps :
           loc = [p \in Procs |->
                    IF p = 1
                    THEN [IdleLoc EXCEPT !.kind = "stats", !.tool = tool,
                                         !.lines = lines]
                    ELSE IdleLoc]
    /\ allocLog = <<>>
    /\ retryPending = {}

ReadStats(p) ==
    /\ pc[p] = "read_stats"
    /\ loc' = [loc EXCEPT ![p].wg_stats =
                   GetWireguardStats(loc[p].tool, loc[p].lines, Now)]
    /\ pc' = [pc EXCEPT ![p] = "done"]
    /\ UNCHANGED <<WG_SERVER_PUBLIC_KEY, WG_START_IP, peers, wg, allocLog,
                   retryPending>>

NextStats == \E p \in Procs : ReadStats(p)

SpecStats == InitStats /\ [][NextStats]_vars

\* ================================================================ claims
\* The request in slot p has produced its response.
Done(p, kind) == pc[p] = "done" /\ loc[p].kind = kind

\* The request issued no install on the live interface.
NoInstall(calls) == \A i \in 1..Len(calls) : calls[i].cmd # "set_peer"

\* The request issued an install that failed: `wg set` is its last command,
\* no save follows it.
InstallFailed(calls) ==
    /\ Len(calls) > 0
    /\ calls[Len(calls)].cmd = "set_peer"

\* The text of an address splits into the subnet, the host and the mask.
IpSubnet(ip_address) == SubSeq(ip_address, 1, Len(WG_SUBNET))
IpRest(ip_address) == SubSeq(ip_address, Len(WG_SUBNET) + 1, Len(ip_address))

\* C1: no two stored peers have the same ip_address, and no two have the same
\* public_key, whatever requests ran and however the live calls ended.
C1_UniqueKeysAndAddresses ==
    \A r, q \in peers :
        r # q => /\ r.ip_address # q.ip_address
                 /\ r.public_key # q.public_key

\* C1 witness: a peer is stored and a creation that drew its key again has
\* just been refused by the unique constraint.
C1_Witness ==
    /\ peers # {}
    /\ \E p \in Procs : Done(p, "create") /\ loc[p].detail = "IntegrityError"

\* C2: the creations since the table was empty, none deleted since, got
\* strictly increasing host offsets, the first being WG_START_IP.
C2_AllocationIncreasing ==
    allocLog # <<>> =>
        /\ LastOctet(allocLog[1]) = WG_START_IP
        /\ \A i, j \in 1..Len(allocLog) :
               i < j => LastOctet(allocLog[i]) < LastOctet(allocLog[j])

\* C2 witness: two creations in a row from the empty table, both stored.
C2_Witness ==
    /\ Len(allocLog) = 2
    /\ Cardinality(peers) = 2

\* C3: a create request that finds the next candidate beyond 254 ends with an
\* error, the pool-exhausted error once its keys were generated; it leaves
\* the table as it found it and issues no install. The pool-exhausted error
\* is given in no other case.
C3_PoolExhaustedLeavesStore ==
    \A p \in Procs :
        Done(p, "create") =>
            /\ NextOctet(loc[p].pre) > MaxHostOctet =>
                   /\ loc[p].status # 200
                   /\ peers = loc[p].pre
                   /\ NoInstall(loc[p].calls)
                   /\ loc[p].private_key # None =>
                          /\ loc[p].status = 500
                          /\ loc[p].detail = "IP address pool exhausted"
            /\ loc[p].detail = "IP address pool exhausted" =>
                   NextOctet(loc[p].pre) > MaxHostOctet

\* C3 witness: a creation refused for exhaustion while peers are stored.
C3_Witness ==
    \E p \in Procs :
        /\ Done(p, "create")
        /\ loc[p].detail = "IP address pool exhausted"
        /\ peers # {}

\* C4: every stored address is the configured subnet, a dot, a host offset
\* from WG_START_IP to 254 written in decimal, and the mask /32.
C4_AddressInRange ==
    \A r \in peers :
        LET rest == IpRest(r.ip_address)
            host == Split(SubSeq(rest, 2, Len(rest)), "/")
        IN  /\ IpSubnet(r.ip_address) = WG_SUBNET
            /\ rest[1] = "."
            /\ Len(host) = 2
            /\ host[2] = IntToStr(HostMask)
            /\ host[1] = IntToStr(StrToInt(host[1]))
            /\ StrToInt(host[1]) \in WG_START_IP..MaxHostOctet

\* C4 witness: the last address of the pool, host 254, is stored next to
\* another one.
C4_Witness ==
    /\ Cardinality(peers) = 2
    /\ \E r \in peers : LastOctet(r.ip_address) = MaxHostOctet

\* C5: with the server public key unset a create request ends with the 400
\* configuration error, having run no command, generated no key, allocated
\* no address and left the table as it was; no creation is ever under way.
C5_UnconfiguredCreateRejected ==
    WG_SERVER_PUBLIC_KEY = None =>
        \A p \in Procs :
            /\ loc[p].kind = "create" =>
                   /\ pc[p] = "done"
                   /\ loc[p].status = 400
                   /\ loc[p].detail = "Server not configured"
                   /\ loc[p].calls = <<>>
                   /\ loc[p].private_key = None
                   /\ loc[p].preshared_key = None
                   /\ loc[p].ip_address = <<>>
                   /\ peers = loc[p].pre
            /\ peers = {}
            /\ wg = {}

\* C5 witness: a create request was refused for the missing server key.
C5_Witness ==
    \E p \in Procs :
        /\ Done(p, "create")
        /\ WG_SERVER_PUBLIC_KEY = None
        /\ loc[p].status = 400

\* C6: a create request that ends with an error, at whichever step, leaves
\* the table as it found it and has issued no install; one that ends well has
\* added exactly its own row.
C6_CreateAtomic ==
    \A p \in Procs :
        Done(p, "create") =>
            IF loc[p].status = 200
            THEN /\ loc[p].peer \notin loc[p].pre
                 /\ peers = loc[p].pre \cup {loc[p].peer}
            ELSE /\ peers = loc[p].pre
                 /\ NoInstall(loc[p].calls)
                 /\ \A r \in peers : r.id # NextId(loc[p].pre)

\* C6 witness: with a peer stored, a creation failed in key generation:
\* `wg genkey` ran and `wg pubkey` then exited non-zero.
C6_Witness ==
    \E p \in Procs :
        /\ Done(p, "create")
        /\ loc[p].status = 500
        /\ loc[p].detail = "Key generation failed"
        /\ Len(loc[p].calls) = 2
        /\ loc[p].pre # {}

\* C7: delete_peer runs the live removal of the peer while its row is still
\* stored, and ends, whether or not the removal succeeded, with exactly that
\* row gone from the table and from the listing.
C7_DeleteAlwaysRemovesRecord ==
    \A p \in Procs :
        /\ pc[p] = "delete_commit" =>
               /\ loc[p].peer \in peers
               /\ loc[p].calls[1] =
                      Call("remove_peer", loc[p].peer.public_key, <<>>, None)
        /\ pc[p] = "remove_peer" => loc[p].peer \in peers /\ loc[p].calls = <<>>
        /\ (Done(p, "delete") /\ loc[p].status = 200) =>
               /\ loc[p].peer \in loc[p].pre
               /\ loc[p].peer.id = loc[p].peer_id
               /\ peers = loc[p].pre \ {loc[p].peer}
               /\ loc[p].calls[1] =
                      Call("remove_peer", loc[p].peer.public_key, <<>>, None)
               /\ \A i \in 1..Len(ListingOf(peers, <<>>)) :
                      ListingOf(peers, <<>>)[i].id # loc[p].peer_id

\* C7 witness: a deletion has ended whose live removal failed, the peer still
\* being installed on the interface.
C7_Witness ==
    \E p \in Procs :
        /\ Done(p, "delete")
        /\ loc[p].status = 200
        /\ Len(loc[p].calls) = 1
        /\ \E e \in wg : e.public_key = loc[p].peer.public_key

\* C8: a toggle of an existing peer ends with that peer's stored flag
\* flipped, nothing else changed, and the new flag returned, whether the
\* live call succeeded or not; its first command is the removal of the peer
\* if it was active, the install with the stored address and stored
\* pre-shared key if it was not.
C8_ToggleFlips ==
    \A p \in Procs :
        (Done(p, "toggle") /\ loc[p].status = 200) =>
            LET old == PeerById(loc[p].pre, loc[p].peer_id)
                new == [old EXCEPT !.is_active = 1 - old.is_active]
            IN  /\ old \in loc[p].pre
                /\ old.is_active \in {0, 1}
                /\ peers = (loc[p].pre \ {old}) \cup {new}
                /\ loc[p].result.is_active = (new.is_active = 1)
                /\ loc[p].calls[1] =
                       IF old.is_active = 1
                       THEN Call("remove_peer", old.public_key, <<>>, None)
                       ELSE Call("set_peer", old.public_key, old.ip_address,
                                 old.preshared_key)
                /\ \A i \in 2..Len(loc[p].calls) : loc[p].calls[i].cmd = "save"

\* C8 witness: an inactive peer with a pre-shared key was toggled to active
\* while another peer is stored, and the install failed.
C8_Witness ==
    \E p \in Procs :
        /\ Done(p, "toggle")
        /\ loc[p].status = 200
        /\ loc[p].result.is_active
        /\ loc[p].peer.preshared_key # None
        /\ InstallFailed(loc[p].calls)
        /\ Cardinality(peers) = 2

\* C9: the install of a create request is issued only once its row is
\* stored, and a create request that issued it ends with status 200 and the
\* row stored with is_active = 1, whether the install succeeded or not.
C9_InstallFailureSwallowed ==
    \A p \in Procs :
        loc[p].kind = "create" =>
            /\ pc[p] = "add_peer" => loc[p].peer \in peers /\ NoInstall(loc[p].calls)
            /\ ~NoInstall(loc[p].calls) =>
                   /\ pc[p] = "done"
                   /\ loc[p].status = 200
                   /\ loc[p].peer \in peers
                   /\ loc[p].peer.is_active = 1
                   /\ loc[p].result.id = loc[p].peer.id

\* C9 witness: a creation has ended whose install failed; the peer is not on
\* the interface.
C9_Witness ==
    \E p \in Procs :
        /\ Done(p, "create")
        /\ InstallFailed(loc[p].calls)
        /\ \A e \in wg : e.public_key # loc[p].peer.public_key

\* C10 as stated: the first toggle of a peer after its install at creation
\* failed issues the install of that peer.
C10_NextToggleInstalls ==
    \A p \in Procs :
        (Done(p, "toggle") /\ loc[p].status = 200 /\ loc[p].retry) =>
            \E i \in 1..Len(loc[p].calls) :
                /\ loc[p].calls[i].cmd = "set_peer"
                /\ loc[p].calls[i].public_key = loc[p].peer.public_key

\* C10 amended: the first toggle of a peer after its install at creation
\* failed finds the peer active, issues the removal of that peer and no
\* install, and stores is_active = 0.
C10_NextToggleRemoves ==
    \A p \in Procs :
        (Done(p, "toggle") /\ loc[p].status = 200 /\ loc[p].retry) =>
            /\ PeerById(loc[p].pre, loc[p].peer_id).is_active = 1
            /\ loc[p].calls[1] =
                   Call("remove_peer", loc[p].peer.public_key, <<>>, None)
            /\ NoInstall(loc[p].calls)
            /\ PeerById(peers, loc[p].peer_id).is_active = 0

\* C10 witness: such a first toggle has ended.
C10_Witness ==
    \E p \in Procs :
        /\ Done(p, "toggle")
        /\ loc[p].status = 200
        /\ loc[p].retry


\* ---------------------------------------------------------------------------
\* A finished read of the live state, with what it was given.
ReadDone(p) == pc[p] = "done" /\ loc[p].kind = "stats"

\* The read met an error: the tool is missing, timed out or exited non-zero,
\* or some peer line of the dump is malformed.
ReadErred(l) ==
    \/ l.tool # "ok"
    \/ \E i \in 2..Len(l.lines) :
           LET parts == Split(l.lines[i], "\t")
           IN  Len(parts) >= DumpFields /\ LineRaises(parts)

\* The first peer line of the dump on which int(...) raises, or one past the
\* end of the dump.
FirstRaising(lines) ==
    LET bad == {i \in 2..Len(lines) :
                   LET parts == Split(lines[i], "\t")
                   IN  Len(parts) >= DumpFields /\ LineRaises(parts)}
    IN  IF bad = {} THEN Len(lines) + 1
        ELSE CHOOSE i \in bad : \A j \in bad : i <= j

\* The peer lines for this key that the read reached.
LinesRead(lines, key) ==
    {i \in 2..(FirstRaising(lines) - 1) :
        LET parts == Split(lines[i], "\t")
        IN  Len(parts) >= DumpFields /\ parts[1] = key}

\* C11: every read ends with a mapping (no error propagates), and a read
\* that met an error returns the empty mapping.
C11_ErrorGivesEmptyMapping ==
    \A p \in Procs :
        ReadDone(p) /\ ReadErred(loc[p]) => loc[p].wg_stats = <<>>

\* C11, what the read does return: nothing when the command failed, and
\* otherwise the entries of the peer lines that precede the first malformed
\* one.
C11_ReturnsEntriesReadSoFar ==
    \A p \in Procs :
        ReadDone(p) =>
            DOMAIN loc[p].wg_stats =
                IF loc[p].tool # "ok" THEN {}
                ELSE {Split(loc[p].lines[i], "\t")[1] :
                         i \in {j \in 2..(FirstRaising(loc[p].lines) - 1) :
                                   Len(Split(loc[p].lines[j], "\t")) >= DumpFields}}

\* A read of a dump with a well-formed peer line followed by a malformed one.
C11_Witness ==
    \E p \in Procs :
        /\ ReadDone(p)
        /\ loc[p].tool = "ok"
        /\ Len(loc[p].lines) = 3
        /\ Len(Split(loc[p].lines[2], "\t")) >= DumpFields
        /\ ~LineRaises(Split(loc[p].lines[2], "\t"))
        /\ Len(Split(loc[p].lines[3], "\t")) >= DumpFields
        /\ LineRaises(Split(loc[p].lines[3], "\t"))
        /\ loc[p].wg_stats # <<>>

\* C12: the entry of every key is the classification of the last peer line
\* read for it: connected iff its handshake is nonzero and less than 130
\* seconds before the read; handshake 0 gives not connected and no
\* handshake time.
C12_ConnectedIffRecentHandshake ==
    \A p \in Procs :
        ReadDone(p) =>
            \A key \in DOMAIN loc[p].wg_stats :
                LET read == LinesRead(loc[p].lines, key)
                    i == CHOOSE i \in read : \A j \in read : j <= i
                    handshake == StrToInt(Split(loc[p].lines[i], "\t")[5])
                    entry == loc[p].wg_stats[key]
                IN  /\ read # {}
                    /\ entry.is_connected <=>
                           /\ handshake # 0
                           /\ handshake > Now - ConnectedWindow
                           /\ handshake <= Now
                    /\ handshake = 0 =>
                           ~entry.is_connected /\ entry.latest_handshake = None
                    /\ handshake # 0 => entry.latest_handshake = handshake

\* A read that classified one peer as connected, its handshake 129 seconds
\* old, and another, which never shook hands, as not connected.
C12_Witness ==
    \E p \in Procs :
        /\ ReadDone(p)
        /\ \E a, b \in DOMAIN loc[p].wg_stats :
               /\ loc[p].wg_stats[a].is_connected
               /\ loc[p].wg_stats[a].latest_handshake = Now - ConnectedWindow + 1
               /\ ~loc[p].wg_stats[b].is_connected
               /\ loc[p].wg_stats[b].latest_handshake = None

\* ---------------------------------------------------------------------------
\* The entries of the view that a finished index, list or get request
\* returned.
ViewEntries(l) ==
    IF l.kind = "get" THEN {l.result}
    ELSE {l.result[i] : i \in 1..Len(l.result)}

ViewDone(p) ==
    /\ pc[p] = "done"
    /\ loc[p].kind \in {"index", "list", "get"}
    /\ loc[p].status = 200

\* The entry reports the peer as the claim requires, given the live state
\* the request read and the row as it is stored.
MergedAsClaimed(e, r, wg_stats) ==
    IF KeyText(r.public_key) \in DOMAIN wg_stats
    THEN LET live == wg_stats[KeyText(r.public_key)]
         IN  /\ e.last_handshake = live.latest_handshake
             /\ e.rx_bytes = live.rx_bytes
             /\ e.tx_bytes = live.tx_bytes
    ELSE /\ e.last_handshake = r.last_handshake
         /\ e.rx_bytes = 0
         /\ e.tx_bytes = 0
         /\ ~e.is_connected

\* C13: in the index, the peer list and the single-peer view, a peer with a
\* live entry is reported with the live handshake and transfer counts, and a
\* peer without one with its persisted handshake time, zero transfer and not
\* connected.
C13_MergedViewFallsBackToStored ==
    \A p \in Procs :
        ViewDone(p) =>
            \A e \in ViewEntries(loc[p]) :
                \E r \in peers :
                    r.id = e.id /\ MergedAsClaimed(e, r, loc[p].wg_stats)

\* C13, what the code does: every view reports the live transfer counts and
\* connection state, or zero and not connected without a live entry; the
\* handshake time is the live one when that is set, and otherwise the
\* persisted one in the index but null in the peer list and the single-peer
\* view.
C13_OnlyIndexFallsBack ==
    \A p \in Procs :
        ViewDone(p) =>
            \A e \in ViewEntries(loc[p]) :
                \E r \in peers :
                    LET stats == StatsOf(loc[p].wg_stats, r.public_key)
                    IN  /\ r.id = e.id
                        /\ e.rx_bytes = stats.rx_bytes
                        /\ e.tx_bytes = stats.tx_bytes
                        /\ e.is_connected = stats.is_connected
                        /\ e.last_handshake =
                               IF stats.latest_handshake # None
                               THEN stats.latest_handshake
                               ELSE IF loc[p].kind = "index"
                                    THEN r.last_handshake
                                    ELSE None

\* A peer list was returned while the dump command failed, for a peer whose
\* handshake time an earlier index request had persisted: the list reports
\* no handshake time.
C13_Witness ==
    \E p \in Procs :
        /\ ViewDone(p)
        /\ loc[p].kind = "list"
        /\ loc[p].wg_stats = <<>>
        /\ \E r \in peers :
               /\ r.last_handshake # None
               /\ \E e \in ViewEntries(loc[p]) :
                      e.id = r.id /\ e.last_handshake = None

\* ---------------------------------------------------------------------------
\* This step is a successful single-peer retrieval of the peer with this id.
GetStep(id) ==
    \E p \in Procs :
        /\ pc[p] = "idle"
        /\ pc'[p] = "done"
        /\ loc'[p].kind = "get"
        /\ loc'[p].status = 200
        /\ loc'[p].peer_id = id

\* C14: over every step, the usage_count of a row that stays in the table
\* does not decrease; a successful get of the peer raises it by exactly 1 and
\* sets last_used, and every other step leaves both as they were.
C14_UsageCountMonotonic ==
    [][\A r \in peers : \A n \in peers' :
           r.id = n.id =>
               /\ n.usage_count >= r.usage_count
               /\ IF GetStep(r.id)
                  THEN n.usage_count = r.usage_count + 1 /\ n.last_used = Now
                  ELSE n.usage_count = r.usage_count /\ n.last_used = r.last_used]_vars

\* A get of a peer that had never been retrieved has ended: its row counts
\* one retrieval and carries the time of it.
C14_Witness ==
    \E p \in Procs :
        /\ Done(p, "get")
        /\ loc[p].status = 200
        /\ \E r \in loc[p].pre : \E n \in peers :
               /\ r.id = loc[p].peer_id
               /\ n.id = r.id
               /\ r.usage_count = 0 /\ r.last_used = None
               /\ n.usage_count = 1 /\ n.last_used = Now
               /\ loc[p].result.usage_count = 1

\* ---------------------------------------------------------------------------
\* C15: over every step, a row that stays in the table keeps its
\* config_text, public_key, private_key, preshared_key and ip_address.
C15_ConfigImmutable ==
    [][\A r \in peers : \A n \in peers' :
           r.id = n.id =>
               /\ n.config_text = r.config_text
               /\ n.public_key = r.public_key
               /\ n.private_key = r.private_key
               /\ n.preshared_key = r.preshared_key
               /\ n.ip_address = r.ip_address]_vars

\* A stored peer that has been retrieved, toggled off and shown on the index
\* page with a live handshake still holds the configuration rendered for it
\* at creation.
C15_Witness ==
    \E r \in peers :
        /\ r.usage_count = 1
        /\ r.is_active = 0
        /\ r.last_handshake # None
        /\ r.config_text =
               CreateClientConfig(r.private_key, r.ip_address, r.preshared_key)

\* ---------------------------------------------------------------------------
\* The request in slot p has started and has not yet produced its response.
Running(p) == pc[p] \notin {"idle", "done"}

\* C16: a create request that has derived its candidate address still sees,
\* when it persists, the table it derived the address from; no stored row
\* holds the candidate, and no other request runs beside it, so no second
\* create can derive the same candidate from the same snapshot.
C16_AllocateThenPersistAtomic ==
    \A p \in Procs :
        /\ pc[p] = "commit" =>
               /\ loc[p].pre = peers
               /\ \A r \in peers : r.ip_address # loc[p].ip_address
        /\ \A q \in Procs \ {p} :
               /\ ~(pc[p] # "idle" /\ pc[q] # "idle")
               /\ (Running(p) /\ Running(q) /\ loc[p].kind = "create"
                     /\ loc[q].kind = "create" /\ loc[p].ip_address # <<>>)
                      => loc[p].ip_address # loc[q].ip_address

\* A second creation has succeeded: it found a stored peer and was given
\* another address than that peer's.
C16_Witness ==
    \E p \in Procs :
        /\ Done(p, "create")
        /\ loc[p].status = 200
        /\ loc[p].pre # {}
        /\ loc[p].peer \in peers
        /\ \A r \in loc[p].pre : r.ip_address # loc[p].peer.ip_address
        /\ Cardinality(peers) = Cardinality(loc[p].pre) + 1

\* ---------------------------------------------------------------------------
\* C17: no request is left waiting on an external command that does not
\* return: every invocation is cut off by its timeout, so every started
\* request goes on to its response.
C17_EveryRequestCompletes ==
    \A p \in Procs : pc[p] # "hung"

\* C17, what holds: only the dump command is run with a timeout, so the
\* requests that run no other command (index, list, get, stats) always
\* complete; a request left waiting is a create, a delete or a toggle.
C17_OnlyDumpIsTimed ==
    \A p \in Procs :
        /\ pc[p] = "hung" => loc[p].kind \in {"create", "delete", "toggle"}
        /\ loc[p].kind \in {"index", "list", "get", "stats"} => pc[p] = "done"

\* A create request waits forever on the install command, its peer record
\* already persisted; no response is sent.
C17_Witness ==
    \E p \in Procs :
        /\ pc[p] = "hung"
        /\ loc[p].kind = "create"
        /\ loc[p].peer \in peers
        /\ loc[p].status = 0

\* ---------------------------------------------------------------------------
\* C18: a get, toggle or delete request for an id that no stored row has
\* ends with 404 "Peer not found", leaves the table as it found it and runs
\* no external command.
C18_MissingPeerNotFound ==
    \A p \in Procs :
        (/\ pc[p] # "idle"
         /\ loc[p].kind \in {"get", "toggle", "delete"}
         /\ \A r \in loc[p].pre : r.id # loc[p].peer_id)
            => /\ pc[p] = "done"
               /\ loc[p].status = 404
               /\ loc[p].detail = "Peer not found"
               /\ peers = loc[p].pre
               /\ loc[p].calls = <<>>

\* A toggle for an id that is not stored has ended, an active peer being
\* stored and installed under another id.
C18_Witness ==
    \E p \in Procs :
        /\ Done(p, "toggle")
        /\ loc[p].status = 404
        /\ \E r \in peers :
               /\ r.id # loc[p].peer_id
               /\ r.is_active = 1
               /\ \E e \in wg : e.public_key = r.public_key

\* ---------------------------------------------------------------------------
\* The highest host offset among the stored rows.
HighestOctet(rows) ==
    CHOOSE o \in {LastOctet(r.ip_address) : r \in rows} :
        \A r \in rows : LastOctet(r.ip_address) <= o

\* The candidate that the claim gives for this table.
ClaimedOctet(rows) ==
    IF rows = {} THEN WG_START_IP ELSE HighestOctet(rows) + 1

\* C19: the address a create request holds when it persists has host offset
\* (highest stored offset) + 1, or WG_START_IP when the table is empty, so it
\* lies above every stored offset; the request is refused as exhausted
\* exactly when that offset exceeds 254.
C19_NextIsHighestPlusOne ==
    \A p \in Procs :
        /\ pc[p] = "commit" =>
               /\ LastOctet(loc[p].ip_address) = ClaimedOctet(peers)
               /\ \A r \in peers :
                      LastOctet(r.ip_address) < LastOctet(loc[p].ip_address)
        /\ (Done(p, "create") /\ loc[p].status = 200) =>
               LastOctet(loc[p].peer.ip_address) = ClaimedOctet(loc[p].pre)
        /\ (Done(p, "create") /\ loc[p].public_key # None) =>
               (loc[p].detail = "IP address pool exhausted"
                   <=> ClaimedOctet(loc[p].pre) > MaxHostOctet)

\* After a deletion a create request holds the address of the deleted peer
\* again, the stored peer having a lower offset.
C19_Witness ==
    \E p \in Procs :
        /\ pc[p] = "commit"
        /\ peers # {}
        /\ allocLog = <<>>
        /\ LastOctet(loc[p].ip_address) = HighestOctet(peers) + 1
        /\ LastOctet(loc[p].ip_address) = MaxHostOctet

\* ---------------------------------------------------------------------------
\* What the interface holds when it agrees with the table: the active rows,
\* each under its public key with its stored address as allowed-ips.
InstalledFor(rows) ==
    {[public_key |-> r.public_key, allowed_ips |-> r.ip_address] :
        r \in {q \in rows : q.is_active # 0}}

\* C20: while every install and removal succeeds, whenever no request is in
\* progress the peers installed on the interface are exactly the stored
\* peers whose is_active is set, each with its stored address.
C20_InterfaceMatchesActivePeers ==
    (\A p \in Procs : ~Running(p)) => wg = InstalledFor(peers)

\* No request is in progress, one stored peer is active and installed, and
\* another is stored inactive and not installed.
C20_Witness ==
    /\ \A p \in Procs : ~Running(p)
    /\ \E a, b \in peers :
           /\ a.is_active = 1
           /\ b.is_active = 0
           /\ wg = {[public_key |-> a.public_key, allowed_ips |-> a.ip_address]}
====
